---- MODULE Spec2Model ----
(***************************************************************************)
(* The audio pipeline of the reading view (components/TextDisplay.tsx)     *)
(* and the speech client it calls (services/geminiService.ts).             *)
(*                                                                         *)
(* One behaviour is the life of one mounted TextDisplay: clicks on the     *)
(* three play buttons, changes of the translation language, the            *)
(* settlement of the promises those handlers await, the ended events of    *)
(* the buffer sources, and the unmount of the view.  Each action is one    *)
(* run-to-completion segment of a handler: from the event (or from the     *)
(* settlement of the awaited promise) to the next await or to the end.     *)
(*                                                                         *)
(* Further specifications look closer at one part each: the steps inside   *)
(* generateSpeech (SpecSpeech), decodeAudioData as a function of its       *)
(* arguments (SpecDecode), handlePlay called with any text (SpecRequests), *)
(* the captures of App.tsx that mount the view (SpecCapture), and the      *)
(* audit log of services/persistenceService.ts (SpecAudit).                *)
(***************************************************************************)
EXTENDS Integers, Sequences, FiniteSets

\* ------------------------------------------------------------- bounds
\* handlePlay invocations that go past the toggle branch, per view
MaxPlays == 2
\* the same, in the view whose language select is left alone (SpecOverlap)
MaxOverlapPlays == 3
\* handleLanguageChange invocations, per view
MaxLangChanges == 2
\* distinct answers the translation provider may give for one language
MaxVersions == 1
\* length of the byte buffers decodeAudioData is applied to (SpecDecode)
MaxBytes == 6
\* channel counts decodeAudioData is applied to (SpecDecode)
MaxChannels == 3
\* length of the audio payloads the speech provider returns
MaxPayloadBytes == 3
\* handlePlay invocations per view while generateSpeech is followed step
\* by step (SpecSpeech)
MaxSpeechPlays == 2
\* handlePlay invocations with a text, per view, when handlePlay is also
\* called with the empty text (SpecRequests)
MaxRequestPlays == 2
\* handleCapture invocations, and file reads that lead to one (SpecCapture)
MaxCaptures == 2
\* handlePlay invocations per mounted view in SpecCapture
MaxCapturePlays == 2
\* submitOpusAudit invocations (SpecAudit)
MaxAudits == 3

\* ---------------------------------------------------------- constants
Null == "null"
TextType == {"original", "simplified", "translated"}
\* the languages the select offers; a subset of LANGUAGES is enough to
\* leave a language and come back to it
LANGUAGES == {"English", "Spanish"}
\* settings.targetLanguage
targetLanguage == "English"
\* the result of processImage for capture number c (App.tsx:55-56)
contentOf(c) ==
  [originalText   |-> [src |-> "original",   lang |-> Null,           ver |-> 0, cap |-> c],
   simplifiedText |-> [src |-> "simplified", lang |-> Null,           ver |-> 0, cap |-> c],
   translatedText |-> [src |-> "translated", lang |-> targetLanguage, ver |-> 0, cap |-> c]]
\* the empty string (falsy in the source)
EmptyText == [src |-> "empty", lang |-> Null, ver |-> 0, cap |-> 0]
NoBuffer == [text |-> EmptyText, call |-> 0]

\* ------------------------------------------------------ decodeAudioData
\* the values of a byte the buffers are built from: the two extremes and
\* the sign bit
ByteValues == {0, 128, 255}
\* Uint8Array contents, as sequences of bytes
PcmBuffers == UNION {[1..n -> ByteValues] : n \in 0..MaxBytes}

\* one element of the Int16Array over the bytes: two bytes, the least
\* significant first, as a signed 16-bit integer
Int16(lo, hi) ==
  LET u == lo + 256 * hi IN IF u >= 32768 THEN u - 65536 ELSE u

\* a Float32 sample num/32768 (line 193); NaN is 0/0
Sample(num) == [num |-> num, den |-> 32768]
NaN == [num |-> 0, den |-> 0]
Zero == Sample(0)

\* no AudioBuffer
NoAudio == [numberOfChannels |-> 0, length |-> 0, channels |-> << >>]
\* decodeAudioData has not been called
Undecoded == [ok |-> FALSE, error |-> "not called", buffer |-> NoAudio]

\* a decoder that builds the Int16Array over the whole samples only, and so
\* drops the last byte of an odd-length buffer
decodeAudioDataLenient(bytes, c) ==
  LET n == Len(bytes) \div 2
      dataInt16 == [j \in 0..(n - 1) |-> Int16(bytes[2 * j + 1], bytes[2 * j + 2])]
      length == n \div c
  IN IF length = 0
     THEN [ok |-> FALSE, error |-> "NotSupportedError", buffer |-> NoAudio]
     ELSE [ok |-> TRUE, error |-> Null,
           buffer |-> [numberOfChannels |-> c, length |-> length,
                       channels |-> [k \in 0..(c - 1) |->
                                      [i \in 0..(length - 1) |->
                                         Sample(dataInt16[i * c + k])]]]]

\* geminiService.ts:180-197.  new Int16Array(data.buffer) raises a
\* RangeError when the byte length is odd.  frameCount is n / c, a fraction
\* when c does not divide n; createBuffer takes it as an unsigned long (the
\* fraction is cut off) and raises NotSupportedError for a length of 0.  The
\* loops run while i < frameCount: a write past the end of channelData is
\* ignored, a read past the end of dataInt16 gives undefined (NaN).
decodeAudioData(bytes, c) ==
  IF Len(bytes) % 2 # 0
  THEN [ok |-> FALSE, error |-> "RangeError", buffer |-> NoAudio]
  ELSE LET n == Len(bytes) \div 2
           dataInt16 == [j \in 0..(n - 1) |->
                           Int16(bytes[2 * j + 1], bytes[2 * j + 2])]
           length == n \div c
           written(i) == i * c < n
           value(i, k) == IF i * c + k < n
                          THEN Sample(dataInt16[i * c + k]) ELSE NaN
       IN IF length = 0
          THEN [ok |-> FALSE, error |-> "NotSupportedError", buffer |-> NoAudio]
          ELSE [ok |-> TRUE, error |-> Null,
                buffer |-> [numberOfChannels |-> c, length |-> length,
                            channels |-> [k \in 0..(c - 1) |->
                                           [i \in 0..(length - 1) |->
                                              IF written(i) THEN value(i, k)
                                              ELSE Zero]]]]

\* ------------------------------------------------- the speech provider
\* the decoded bytes of the inline audio a response may carry: one buffer
\* of each length (the view never looks at the samples of a buffer)
Payloads == {[i \in 1..n |-> 255] : n \in 0..MaxPayloadBytes}
\* what the speech provider may answer to one call: an error, a response
\* with no candidate, one with no inline audio, or one with inline audio
ProviderResponses ==
  {[kind |-> k, data |-> << >>] : k \in {"error", "no_candidate", "no_inline_audio"}}
  \cup {[kind |-> "audio", data |-> d] : d \in Payloads}
\* new AudioContextClass() of line 148 raised: no decode context
NoDecodeContext == [kind |-> "no_decode_context", data |-> << >>]

\* ------------------------------------------------------ the audit log
\* the values Math.random().toString(36).substring(7) may give; two calls
\* may draw the same one
AuditIds == {"a", "b", "c"}
\* TextDisplay.tsx:120-125 (the timestamp is left out)
AuditRequest(id) == [id |-> id, imageHash |-> "mock-hash", status |-> "PENDING"]
\* localStorage.getItem gives null: the key has never been set
NoItem == [present |-> FALSE, text |-> << >>]
\* JSON.stringify of the log: each entry as its values in the order of its
\* keys; and JSON.parse of such a text
stringify(logs) ==
  [present |-> TRUE,
   text |-> [i \in 1..Len(logs) |-> <<logs[i].id, logs[i].imageHash, logs[i].status>>]]
parse(item) ==
  [i \in 1..Len(item.text) |->
     [id |-> item.text[i][1], imageHash |-> item.text[i][2], status |-> item.text[i][3]]]

\* persistenceService.ts:91-94
getAuditLogs(item) == IF item.present THEN parse(item) ELSE << >>

\* the callback with a fresh array in the place of the stored log
submitOpusAuditOverwrite(item, audit) == stringify(<<audit>>)

\* persistenceService.ts:36-38, the timer callback of submitOpusAudit: the
\* item it stores
submitOpusAudit(item, audit) == stringify(Append(getAuditLogs(item), audit))

\* ------------------------------------------------------ processImage
\* Texts are sequences of characters.
AsciiUpper == <<"A", "B", "C", "D", "E", "F", "G", "H", "I", "J", "K", "L", "M", "N", "O", "P", "Q", "R", "S", "T", "U", "V", "W", "X", "Y", "Z">>
AsciiLower == <<"a", "b", "c", "d", "e", "f", "g", "h", "i", "j", "k", "l", "m", "n", "o", "p", "q", "r", "s", "t", "u", "v", "w", "x", "y", "z">>

\* String.prototype.toLowerCase, on the ASCII letters
toLowerCase(text) ==
  [i \in 1..Len(text) |->
     IF \E n \in 1..Len(AsciiUpper) : AsciiUpper[n] = text[i]
     THEN AsciiLower[CHOOSE n \in 1..Len(AsciiUpper) : AsciiUpper[n] = text[i]]
     ELSE text[i]]

\* String.prototype.includes
includes(text, kw) ==
  \E i \in 1..(Len(text) - Len(kw) + 1) : SubSeq(text, i, i + Len(kw) - 1) = kw

\* constants.ts:57-59
CRITICAL_KEYWORDS ==
  { <<"d", "o", "s", "a", "g", "e">>,
    <<"m", "e", "d", "i", "c", "i", "n", "e">>,
    <<"w", "a", "r", "n", "i", "n", "g">>,
    <<"d", "a", "n", "g", "e", "r">>,
    <<"c", "a", "u", "t", "i", "o", "n">>,
    <<"p", "r", "e", "s", "c", "r", "i", "p", "t", "i", "o", "n">>,
    <<"s", "i", "d", "e", " ", "e", "f", "f", "e", "c", "t", "s">>,
    <<"e", "m", "e", "r", "g", "e", "n", "c", "y">> }

\* line 98 with the text compared as it is, upper case and all
isCriticalCaseSensitive(originalText) ==
  \E kw \in CRITICAL_KEYWORDS : includes(originalText, kw)

\* geminiService.ts:98
isCritical(originalText) ==
  \E kw \in CRITICAL_KEYWORDS : includes(toLowerCase(originalText), kw)

\* the pieces the texts of the model's answers are made of
Fragments ==
  { <<"d", "o", "s", "a", "g", "e">>,
    <<"D", "O", "S", "A", "G", "E">>,
    <<"D", "o", "s">>,
    <<"a", "g", "e">>,
    <<"S", "i", "d", "e", " ">>,
    <<"E", "f", "f", "e", "c", "t", "s">>,
    <<"s", "i", "d", "e", " ", "e", "f", "f", "e", "c", "t", "s">>,
    <<"W", "A", "R", "N", "I", "N", "G", ":">>,
    <<"m", "e", "n", "u">>,
    <<"E", "m", "e", "r", "g", "e", "n", "c", "y">>,
    <<"C", "a", "u", "t", "i", "o", "n">>,
    <<"x">>,
    <<" ">>,
    <<"m", "e", "d">> }
MaxFragments == 2

RECURSIVE TextsOf(_)
TextsOf(n) ==
  IF n = 0 THEN {<< >>}
  ELSE TextsOf(n - 1) \cup {t \o f : t \in TextsOf(n - 1), f \in Fragments}

\* response.text of line 92: empty, or the JSON of a ProcessedContent, of
\* which originalText and requiresAudit are followed
NoText == [hasText |-> FALSE, originalText |-> << >>, requiresAudit |-> FALSE]
ImageResponses ==
  {NoText} \cup [hasText : {TRUE}, originalText : TextsOf(MaxFragments),
                 requiresAudit : BOOLEAN]

NotSettled ==
  [pc |-> "pending", ok |-> FALSE, originalText |-> << >>, requiresAudit |-> FALSE]

\* geminiService.ts:92-101 and the catch of 103-106: what processImage
\* settles with
processImage(response) ==
  IF ~response.hasText
  THEN [pc |-> "settled", ok |-> FALSE, originalText |-> << >>,
        requiresAudit |-> FALSE]
  ELSE [pc |-> "settled", ok |-> TRUE, originalText |-> response.originalText,
        requiresAudit |-> IF isCritical(response.originalText)
                          THEN TRUE
                          ELSE response.requiresAudit]

\* ------------------------------------------------------ CameraCapture
\* the startCamera invocations followed
MaxCameraStarts == 3

VARIABLES
  activeAudioType,   \* useState, TextDisplay.tsx:20
  loadingAudioType,  \* useState, TextDisplay.tsx:21
  translatedText,    \* useState, TextDisplay.tsx:27
  currentLanguage,   \* useState, TextDisplay.tsx:28
  isTranslating,     \* useState, TextDisplay.tsx:29
  audioContextRef,   \* useRef: Null, or the state of the context it holds
  audioSourceRef,    \* useRef: 0 (null), or the index of the source it holds
  audioCache,        \* useRef: cache key -> buffer (NoBuffer: no entry)
  plays,             \* the handlePlay invocations that reached line 81
  sources,           \* sources[i]: the AudioBufferSourceNode of plays[i]
  translations,      \* the handleLanguageChange invocations
  notices,           \* number of alert() calls of handlePlay
  closeCalls,        \* number of close() calls on the shared context
  errorPropagated,   \* an exception escaped a handler
  mounted,           \* the view is mounted
  last,              \* the handler segment that ran last
  contextsCreated,   \* number of shared contexts constructed (line 94)
  speech,            \* speech[i]: the generateSpeech call of plays[i]
  data,              \* decodeAudioData's argument: the bytes
  numChannels,       \* decodeAudioData's argument
  decoded,           \* what decodeAudioData settled with
  appState,          \* useState, App.tsx:12
  shown,             \* useState content, App.tsx:15: 0 (null) or the capture
  captures,          \* the handleCapture invocations
  fileReads,         \* FileReaders that have not fired onloadend yet
  auditLogs,         \* the localStorage item STORAGE_KEY_AUDIT
  auditCalls,        \* the submitOpusAudit invocations
  isCameraOpen,      \* useState, CameraCapture.tsx:15
  cameraError,       \* useState error, CameraCapture.tsx:13: it is non-null
  facingMode,        \* useState, CameraCapture.tsx:14
  streamRef,         \* useRef, line 11: 0 (null) or the call whose stream it holds
  cameraCalls,       \* the startCamera invocations and the streams they obtained
  cameraMounted,     \* CameraCapture is mounted
  imageResponse,     \* processImage: what the model answered (line 92)
  processResult      \* processImage: what it settled with

speechVars == <<speech>>
decodeVars == <<data, numChannels, decoded>>
appVars == <<appState, shown, captures, fileReads>>
auditVars == <<auditLogs, auditCalls>>
cameraVars == <<isCameraOpen, cameraError, facingMode, streamRef, cameraCalls,
                cameraMounted>>
processVars == <<imageResponse, processResult>>
\* the state and refs of the view, but for `last`
viewState == <<activeAudioType, loadingAudioType, translatedText,
               currentLanguage, isTranslating, audioContextRef, audioSourceRef,
               audioCache, plays, sources, translations, notices, closeCalls,
               errorPropagated, mounted, contextsCreated>>
\* what the handlers of the view never touch
outsideView == <<speechVars, decodeVars, appVars, auditVars, cameraVars, processVars>>

vars == <<activeAudioType, loadingAudioType, translatedText, currentLanguage,
          isTranslating, audioContextRef, audioSourceRef, audioCache, plays,
          sources, translations, notices, closeCalls, errorPropagated,
          mounted, last, contextsCreated, outsideView>>

\* ------------------------------------------------------ cache keys
\* `translated_${currentLanguage}`
TranslatedKey(lang) ==
  CASE lang = "English" -> "translated_English"
    [] lang = "Spanish" -> "translated_Spanish"
    [] OTHER            -> "translated_other"

\* every property name the handlers read, write or delete in audioCache
CacheKeys ==
  {"original", "simplified", "translated"} \cup {TranslatedKey(l) : l \in LANGUAGES}

\* TextDisplay.tsx:84
cacheKey(type, lang) ==
  IF type = "translated" THEN TranslatedKey(lang) ELSE type

\* TextDisplay.tsx:88, the language handed to generateSpeech
speechLanguage(type, lang) ==
  IF type = "translated" THEN lang ELSE targetLanguage

\* the content prop of the view (App.tsx:215)
content == contentOf(shown)

\* the text prop of the card of a type (TextDisplay.tsx:276, 287, 298)
cardText(type) ==
  CASE type = "original"   -> content.originalText
    [] type = "simplified" -> content.simplifiedText
    [] OTHER               -> translatedText

\* ------------------------------------------------- the state as a record
\* The handlers are written as functions from state to state, so that the
\* calls a handler makes (stopAudio, then the rest) compose.
Cur ==
  [active |-> activeAudioType, loading |-> loadingAudioType,
   ctx |-> audioContextRef, ref |-> audioSourceRef, cache |-> audioCache,
   plays |-> plays, sources |-> sources, notices |-> notices,
   err |-> errorPropagated, mounted |-> mounted, created |-> contextsCreated]

Commit(st) ==
  /\ activeAudioType' = st.active
  /\ loadingAudioType' = st.loading
  /\ audioContextRef' = st.ctx
  /\ audioSourceRef' = st.ref
  /\ audioCache' = st.cache
  /\ plays' = st.plays
  /\ sources' = st.sources
  /\ notices' = st.notices
  /\ errorPropagated' = st.err
  /\ mounted' = st.mounted
  /\ contextsCreated' = st.created

\* a state setter of an unmounted component does nothing
setActiveAudioType(st, v) == IF st.mounted THEN [st EXCEPT !.active = v] ELSE st
setLoadingAudioType(st, v) == IF st.mounted THEN [st EXCEPT !.loading = v] ELSE st


\* stopAudio without its try/catch: an error raised by stop() escapes, and
\* the lines after it do not run
stopAudioNoCatch(st, throws) ==
  IF st.ref # 0 /\ throws
  THEN [st EXCEPT !.err = TRUE]
  ELSE setActiveAudioType(
         IF st.ref # 0
         THEN [st EXCEPT
                 !.sources[st.ref] = IF @ = "playing" THEN "ended" ELSE @,
                 !.ref = 0]
         ELSE st,
         Null)

\* ------------------------------------------------------------ stopAudio
\* TextDisplay.tsx:47-53.  stop() ends the source; its ended event is
\* queued and delivered later.  `throws`: the handle's stop() raised (the
\* source had already ended); the empty catch swallows it.
stopAudio(st, throws) ==
  LET stopped ==
        IF st.ref # 0
        THEN [st EXCEPT
                !.sources[st.ref] = IF @ = "playing" THEN "ended" ELSE @,
                !.ref = 0]
        ELSE st
  IN setActiveAudioType(stopped, Null)

\* whether audioSourceRef.current.stop() may raise in this state
StopMayThrow(st) ==
  IF st.ref # 0 /\ st.sources[st.ref] # "playing" THEN BOOLEAN ELSE {FALSE}

\* ------------------------------------------------------- generateSpeech
\* geminiService.ts:128-161, the body of the try: whether it returns, and
\* the error it raises when it does not
speechBody(response) ==
  CASE response.kind = "error" -> [ok |-> FALSE, error |-> "provider error"]
    [] response.kind \in {"no_candidate", "no_inline_audio"} ->
         [ok |-> FALSE, error |-> "No audio data returned"]
    [] response.kind = "no_decode_context" ->
         [ok |-> FALSE, error |-> "NotSupportedError"]
    [] OTHER ->
         LET d == decodeAudioData(response.data, 1)
         IN [ok |-> d.ok, error |-> d.error]

\* generateSpeech without the catch of lines 163-166: the error of the body
\* reaches the caller as it is
generateSpeechRethrow(text, call, response) ==
  LET r == speechBody(response)
  IN IF r.ok
     THEN [ok |-> TRUE, buffer |-> [text |-> text, call |-> call], error |-> Null]
     ELSE [ok |-> FALSE, buffer |-> NoBuffer, error |-> r.error]

\* geminiService.ts:126-167: the buffer, or the one error every failure is
\* turned into.  `call` identifies the AudioBuffer object that is returned.
generateSpeech(text, call, response) ==
  LET r == speechBody(response)
  IN IF r.ok
     THEN [ok |-> TRUE, buffer |-> [text |-> text, call |-> call], error |-> Null]
     ELSE [ok |-> FALSE, buffer |-> NoBuffer, error |-> "Failed to generate speech."]

\* handlePlay's catch without its finally: the loading marker is left set
playFailedNoFinally(st, id) ==
  [st EXCEPT !.notices = @ + 1,
             !.plays[id].pc = "done",
             !.plays[id].result = "failed"]

\* ----------------------------------------------------------- handlePlay
\* TextDisplay.tsx:109-114: catch (alert) and finally
playFailed(st, id) ==
  setLoadingAudioType(
    [st EXCEPT !.notices = @ + 1,
               !.plays[id].pc = "done",
               !.plays[id].result = "failed"],
    Null)

\* lines 101-107 without the finally of 112-114: the loading marker is left
\* set when the source has started
startSourceNoFinally(st, id, startOk) ==
  IF startOk
  THEN setActiveAudioType(
         [st EXCEPT !.sources[id] = "playing",
                    !.ref = id,
                    !.plays[id].pc = "done",
                    !.plays[id].result = "started"],
         st.plays[id].type)
  ELSE playFailed(st, id)

\* TextDisplay.tsx:101-107 and the finally of 112-114
startSource(st, id, startOk) ==
  IF startOk
  THEN setLoadingAudioType(
         setActiveAudioType(
           [st EXCEPT !.sources[id] = "playing",
                      !.ref = id,
                      !.plays[id].pc = "done",
                      !.plays[id].result = "started"],
           st.plays[id].type),
         Null)
  ELSE playFailed(st, id)

\* lines 92-95 without the test of the ref: every playback constructs a
\* context of its own
acquireContextAlwaysNew(st, id, newCtx, startOk) ==
  IF newCtx = "throws"
  THEN playFailed(st, id)
  ELSE LET s1 == [st EXCEPT !.ctx = newCtx, !.created = @ + 1]
       IN IF s1.ctx = "suspended"
          THEN [s1 EXCEPT !.plays[id].pc = "resume"]
          ELSE startSource(s1, id, startOk)

\* TextDisplay.tsx:92-99: the shared context is created when the ref is
\* empty (newCtx: the state the new context is in, or "throws"), and
\* resumed when suspended.
acquireContext(st, id, newCtx, startOk) ==
  IF st.ctx = Null /\ newCtx = "throws"
  THEN playFailed(st, id)
  ELSE LET s1 == IF st.ctx = Null
                 THEN [st EXCEPT !.ctx = newCtx, !.created = @ + 1]
                 ELSE st
       IN IF s1.ctx = "suspended"
          THEN [s1 EXCEPT !.plays[id].pc = "resume"]
          ELSE startSource(s1, id, startOk)

\* handlePlay without the toggle branch of lines 75-78: a click on the
\* playing variant restarts it
handlePlayNoToggle(st, type, text, lang, throws, newCtx, startOk) ==
  LET s1 == stopAudio(st, throws)
      key == cacheKey(type, lang)
      buffer == s1.cache[key]
      id == Len(s1.plays) + 1
      play == [type |-> type, text |-> text,
               lang |-> speechLanguage(type, lang), key |-> key,
               fromCache |-> buffer # NoBuffer, buffer |-> buffer,
               pc |-> "synth", result |-> "pending"]
      s2 == [setLoadingAudioType(s1, type) EXCEPT
               !.plays = Append(@, play),
               !.sources = Append(@, "none")]
  IN IF s1.err \/ text = EmptyText
     THEN s1
     ELSE IF buffer = NoBuffer
          THEN s2
          ELSE acquireContext(s2, id, newCtx, startOk)

\* TextDisplay.tsx:74-90, up to the await of generateSpeech (a cache miss)
\* or through to the end (a cache hit with a running context)
handlePlay(st, type, text, lang, throws, newCtx, startOk) ==
  IF st.active = type
  THEN stopAudio(st, throws)
  ELSE LET s1 == stopAudio(st, throws)
           key == cacheKey(type, lang)
           buffer == s1.cache[key]
           id == Len(s1.plays) + 1
           play == [type |-> type, text |-> text,
                    lang |-> speechLanguage(type, lang), key |-> key,
                    fromCache |-> buffer # NoBuffer, buffer |-> buffer,
                    pc |-> "synth", result |-> "pending"]
           s2 == [setLoadingAudioType(s1, type) EXCEPT
                    !.plays = Append(@, play),
                    !.sources = Append(@, "none")]
       IN IF s1.err \/ text = EmptyText
          THEN s1
          ELSE IF buffer = NoBuffer
               THEN s2
               ELSE acquireContext(s2, id, newCtx, startOk)

\* line 89 moved before the await's outcome is known: an entry is written
\* for the key whether or not generateSpeech succeeded
synthSettledCacheFirst(st, id, response, newCtx, startOk) ==
  LET r == generateSpeech(st.plays[id].text, id, response)
      entry == [text |-> st.plays[id].text, call |-> id]
      s1 == [st EXCEPT !.cache[st.plays[id].key] = entry]
  IN IF r.ok
     THEN acquireContext([s1 EXCEPT !.plays[id].buffer = r.buffer],
                         id, newCtx, startOk)
     ELSE playFailed(s1, id)

\* TextDisplay.tsx:88-90 and on: the awaited generateSpeech has settled
synthSettled(st, id, response, newCtx, startOk) ==
  LET r == generateSpeech(st.plays[id].text, id, response)
  IN IF r.ok
     THEN acquireContext(
            [st EXCEPT !.cache[st.plays[id].key] = r.buffer,
                       !.plays[id].buffer = r.buffer],
            id, newCtx, startOk)
     ELSE playFailed(st, id)

\* TextDisplay.tsx:98 and on: the awaited resume() has settled
resumeSettled(st, id, ok, startOk) ==
  IF ok
  THEN startSource([st EXCEPT !.ctx = IF @ = "suspended" THEN "running" ELSE @],
                   id, startOk)
  ELSE playFailed(st, id)

\* the play button of a card, TextDisplay.tsx:189
disabled(type) ==
  \/ loadingAudioType = type
  \/ type = "translated" /\ isTranslating
  \/ cardText(type) = EmptyText

NewContextStates == {"running", "suspended", "throws"}


\* ----------------------------------------------------- language change
\* geminiService.ts:109-124: the answers translateText may give for a
\* language (response.text || ""), FALSE standing for the thrown error
translateText(lang) ==
  {[ok |-> TRUE, text |-> [src |-> "translated", lang |-> lang, ver |-> v,
                           cap |-> content.originalText.cap]] :
     v \in 0..MaxVersions}
  \cup {[ok |-> TRUE, text |-> EmptyText], [ok |-> FALSE, text |-> EmptyText]}

\* the invalidation written as a reset of the whole cache object
invalidateAll(cache) == [k \in CacheKeys |-> NoBuffer]

\* TextDisplay.tsx:64-66
invalidateTranslated(cache) == [cache EXCEPT !["translated"] = NoBuffer]

\* ------------------------------------------------------------- actions
\* the state and refs of a TextDisplay at its first render (lines 20-34)
InitView(isMounted) ==
  /\ activeAudioType = Null
  /\ loadingAudioType = Null
  /\ translatedText = content.translatedText
  /\ currentLanguage = targetLanguage
  /\ isTranslating = FALSE
  /\ audioContextRef = Null
  /\ audioSourceRef = 0
  /\ audioCache = [k \in CacheKeys |-> NoBuffer]
  /\ plays = << >>
  /\ sources = << >>
  /\ translations = << >>
  /\ notices = 0
  /\ closeCalls = 0
  /\ errorPropagated = FALSE
  /\ mounted = isMounted
  /\ contextsCreated = 0
  /\ last = [op |-> "init", id |-> 0, threw |-> FALSE]

\* no generateSpeech call, no decodeAudioData call, no audit
\* CameraCapture.tsx:11-16
InitCamera ==
  /\ isCameraOpen = FALSE
  /\ cameraError = FALSE
  /\ facingMode = "environment"
  /\ streamRef = 0
  /\ cameraCalls = << >>
  /\ cameraMounted = TRUE

\* everything outside the view but processImage
InitBackground ==
  /\ speech = << >>
  /\ data = << >>
  /\ numChannels = 1
  /\ decoded = Undecoded
  /\ auditLogs = NoItem
  /\ auditCalls = << >>
  /\ InitCamera

InitServices ==
  /\ InitBackground
  /\ imageResponse = NoText
  /\ processResult = NotSettled

\* the application showing the result of its first capture
InitReading ==
  /\ appState = "READING"
  /\ shown = 1
  /\ captures = <<"done">>
  /\ fileReads = 0

Init == InitReading /\ InitView(TRUE) /\ InitServices

\* a click on the play button of the card of `type`: handlePlay(type, text)
\* runs to its first await or to its end
Click(type, maxPlays) ==
  /\ mounted
  /\ ~disabled(type)
  /\ activeAudioType # type => Len(plays) < maxPlays
  /\ \E throws \in StopMayThrow(Cur), newCtx \in NewContextStates, startOk \in BOOLEAN :
       /\ Commit(handlePlay(Cur, type, cardText(type), currentLanguage,
                            throws, newCtx, startOk))
       /\ last' = IF activeAudioType = type
                  THEN [op |-> "toggle", id |-> 0, threw |-> throws]
                  ELSE [op |-> "play", id |-> Len(plays) + 1, threw |-> throws]
  /\ UNCHANGED <<translatedText, currentLanguage, isTranslating, translations,
                 closeCalls>>

PlayClick(type) == Click(type, MaxPlays) /\ UNCHANGED outsideView

\* the generateSpeech call of plays[id] settles and handlePlay goes on
SynthSettle(id) ==
  /\ id \in 1..Len(plays)
  /\ plays[id].pc = "synth"
  /\ ~plays[id].fromCache
  /\ \E response \in ProviderResponses, newCtx \in NewContextStates, startOk \in BOOLEAN :
       Commit(synthSettled(Cur, id, response, newCtx, startOk))
  /\ last' = [op |-> "synth", id |-> id, threw |-> FALSE]
  /\ UNCHANGED <<translatedText, currentLanguage, isTranslating, translations,
                 closeCalls, outsideView>>

\* the resume() call of plays[id] settles and handlePlay goes on; resume()
\* of a closed context rejects
ResumeSettle(id) ==
  /\ id \in 1..Len(plays)
  /\ plays[id].pc = "resume"
  /\ \E ok \in (IF audioContextRef = "closed" THEN {FALSE} ELSE BOOLEAN),
        startOk \in BOOLEAN :
       Commit(resumeSettled(Cur, id, ok, startOk))
  /\ last' = [op |-> "resume", id |-> id, threw |-> FALSE]
  /\ UNCHANGED <<translatedText, currentLanguage, isTranslating, translations,
                 closeCalls, outsideView>>

\* the buffer of source id has been played to its end; the ended event is
\* queued
NaturalEnd(id) ==
  /\ id \in 1..Len(sources)
  /\ sources[id] = "playing"
  /\ audioContextRef = "running"
  /\ sources' = [sources EXCEPT ![id] = "ended"]
  /\ last' = [op |-> "buffer_end", id |-> id, threw |-> FALSE]
  /\ UNCHANGED <<activeAudioType, loadingAudioType, translatedText,
                 currentLanguage, isTranslating, audioContextRef, audioSourceRef,
                 audioCache, plays, translations, notices, closeCalls,
                 errorPropagated, mounted, contextsCreated, outsideView>>

\* TextDisplay.tsx:104: the ended event of source id (stopped, or played to
\* its end) is delivered
OnEnded(id) ==
  /\ id \in 1..Len(sources)
  /\ sources[id] = "ended"
  /\ Commit(setActiveAudioType([Cur EXCEPT !.sources[id] = "done"], Null))
  /\ last' = [op |-> "onended", id |-> id, threw |-> FALSE]
  /\ UNCHANGED <<translatedText, currentLanguage, isTranslating, translations,
                 closeCalls, outsideView>>

\* TextDisplay.tsx:55-60: the select changes to newLang; up to the await
HandleLanguageChange(newLang) ==
  /\ mounted
  /\ newLang # currentLanguage
  /\ Len(translations) < MaxLangChanges
  /\ currentLanguage' = newLang
  /\ isTranslating' = TRUE
  /\ \E throws \in StopMayThrow(Cur) :
       /\ Commit(stopAudio(Cur, throws))
       /\ last' = [op |-> "language", id |-> Len(translations) + 1,
                   threw |-> throws]
  /\ translations' = Append(translations, [lang |-> newLang, pc |-> "pending"])
  /\ UNCHANGED <<translatedText, closeCalls, outsideView>>

\* TextDisplay.tsx:62-71: the translateText call of translations[j] settles
TranslateSettle(j) ==
  /\ j \in 1..Len(translations)
  /\ translations[j].pc = "pending"
  /\ \E r \in translateText(translations[j].lang) :
       /\ translatedText' = IF r.ok /\ mounted THEN r.text ELSE translatedText
       /\ audioCache' = IF r.ok THEN invalidateTranslated(audioCache) ELSE audioCache
       /\ translations' = [translations EXCEPT
                             ![j].pc = IF r.ok THEN "done" ELSE "failed"]
  /\ isTranslating' = IF mounted THEN FALSE ELSE isTranslating
  /\ last' = [op |-> "translated", id |-> j, threw |-> FALSE]
  /\ UNCHANGED <<activeAudioType, loadingAudioType, currentLanguage,
                 audioContextRef, audioSourceRef, plays, sources, notices,
                 closeCalls, errorPropagated, mounted, contextsCreated,
                 outsideView>>

\* the platform suspends the idle shared context
PlatformSuspend ==
  /\ audioContextRef = "running"
  /\ \A i \in 1..Len(sources) : sources[i] # "playing"
  /\ audioContextRef' = "suspended"
  /\ last' = [op |-> "suspend", id |-> 0, threw |-> FALSE]
  /\ UNCHANGED <<activeAudioType, loadingAudioType, translatedText,
                 currentLanguage, isTranslating, audioSourceRef, audioCache,
                 plays, sources, translations, notices, closeCalls,
                 errorPropagated, mounted, contextsCreated, outsideView>>

\* the cleanup with lines 41-43 left out: the context is never closed
CleanupNoClose ==
  /\ mounted
  /\ \E throws \in StopMayThrow(Cur) :
       /\ Commit([stopAudio(Cur, throws) EXCEPT !.mounted = FALSE])
       /\ last' = [op |-> "unmount", id |-> 0, threw |-> throws]
  /\ UNCHANGED <<translatedText, currentLanguage, isTranslating, translations,
                 closeCalls>>

\* TextDisplay.tsx:38-45: the cleanup of the view's effect
Cleanup ==
  /\ mounted
  /\ \E throws \in StopMayThrow(Cur) :
       LET s1 == stopAudio(Cur, throws)
       IN /\ Commit([s1 EXCEPT !.mounted = FALSE,
                               !.ctx = IF s1.err \/ @ = Null THEN @ ELSE "closed"])
          /\ last' = [op |-> "unmount", id |-> 0, threw |-> throws]
  /\ closeCalls' = IF audioContextRef # Null /\ ~errorPropagated'
                   THEN closeCalls + 1 ELSE closeCalls
  /\ UNCHANGED <<translatedText, currentLanguage, isTranslating, translations>>

\* the view is unmounted
Unmount == Cleanup /\ UNCHANGED outsideView

Next ==
  \/ \E type \in TextType : PlayClick(type)
  \/ \E id \in 1..Len(plays) : SynthSettle(id)
  \/ \E id \in 1..Len(plays) : ResumeSettle(id)
  \/ \E id \in 1..Len(plays) : NaturalEnd(id)
  \/ \E id \in 1..Len(plays) : OnEnded(id)
  \/ \E newLang \in LANGUAGES : HandleLanguageChange(newLang)
  \/ \E j \in 1..Len(translations) : TranslateSettle(j)
  \/ PlatformSuspend
  \/ Unmount

Spec == Init /\ [][Next]_vars

\* The view while the user leaves the language select alone: the same
\* handlers, one more play request.
OverlapClick(type) == Click(type, MaxOverlapPlays) /\ UNCHANGED outsideView

NextOverlap ==
  \/ \E type \in TextType : OverlapClick(type)
  \/ \E id \in 1..Len(plays) : SynthSettle(id)
  \/ \E id \in 1..Len(plays) : ResumeSettle(id)
  \/ \E id \in 1..Len(plays) : NaturalEnd(id)
  \/ \E id \in 1..Len(plays) : OnEnded(id)
  \/ PlatformSuspend
  \/ Unmount

SpecOverlap == Init /\ [][NextOverlap]_vars

\* ---------------------------------------------------------- SpecDecode
\* decodeAudioData applied once to any byte buffer and channel count
InitDecode ==
  /\ InitReading
  /\ InitView(TRUE)
  /\ speech = << >>
  /\ data \in PcmBuffers
  /\ numChannels \in 1..MaxChannels
  /\ decoded = Undecoded
  /\ auditLogs = NoItem
  /\ auditCalls = << >>
  /\ InitCamera
  /\ imageResponse = NoText
  /\ processResult = NotSettled

DecodeAudioData ==
  /\ decoded = Undecoded
  /\ decoded' = decodeAudioData(data, numChannels)
  /\ UNCHANGED <<activeAudioType, loadingAudioType, translatedText,
                 currentLanguage, isTranslating, audioContextRef, audioSourceRef,
                 audioCache, plays, sources, translations, notices, closeCalls,
                 errorPropagated, mounted, last, contextsCreated,
                 speechVars, data, numChannels, appVars, auditVars, cameraVars, processVars>>

NextDecode == DecodeAudioData

SpecDecode == InitDecode /\ [][NextDecode]_vars

\* ---------------------------------------------------------- SpecSpeech
\* The view with generateSpeech followed through its awaits: the provider
\* call (line 129), the decode (151) and the close of the decode context
\* (160).  speech[i] is the call made by plays[i].
NoCall ==
  [pc |-> "unused", response |-> NoDecodeContext, ctx |-> "none",
   ok |-> FALSE, cause |-> Null, error |-> Null]
NewCall == [NoCall EXCEPT !.pc = "provider"]

\* the close placed after the await inside the try, not in a finally: it
\* is skipped when the decode raises
closeDecodeContextOnSuccess(call) ==
  IF decodeAudioData(call.response.data, 1).ok
  THEN [call EXCEPT !.ctx = "closed"]
  ELSE call

\* geminiService.ts:158-161
closeDecodeContext(call) == [call EXCEPT !.ctx = "closed"]

\* generateSpeech settles with what its body made of `response`, and the
\* handlePlay that awaits it goes on
speechSettled(id, call, response) ==
  \E newCtx \in NewContextStates, startOk \in BOOLEAN :
    LET r == generateSpeech(plays[id].text, id, response)
    IN /\ speech' = [speech EXCEPT
                       ![id] = [call EXCEPT !.pc = "settled",
                                            !.response = NoDecodeContext,
                                            !.ok = r.ok,
                                            !.cause = speechBody(response).error,
                                            !.error = r.error]]
       /\ Commit(synthSettled(Cur, id, response, newCtx, startOk))
       /\ last' = [op |-> "synth", id |-> id, threw |-> FALSE]
       /\ UNCHANGED <<translatedText, currentLanguage, isTranslating,
                      translations, closeCalls, decodeVars, appVars, auditVars, cameraVars, processVars>>

SpeechClick(type) ==
  /\ Click(type, MaxSpeechPlays)
  /\ speech' = IF Len(plays') > Len(plays)
               THEN Append(speech, IF plays'[Len(plays')].fromCache
                                   THEN NoCall ELSE NewCall)
               ELSE speech
  /\ UNCHANGED <<decodeVars, appVars, auditVars, cameraVars, processVars>>

\* the provider call of line 129 settles; lines 142-156 run up to the await
ProviderSettle(id) ==
  /\ id \in 1..Len(speech)
  /\ speech[id].pc = "provider"
  /\ \E response \in ProviderResponses, contextOk \in BOOLEAN :
       IF response.kind # "audio"
       THEN speechSettled(id, speech[id], response)
       ELSE IF ~contextOk
            THEN speechSettled(id, speech[id], NoDecodeContext)
            ELSE /\ speech' = [speech EXCEPT ![id].pc = "decoding",
                                             ![id].response = response,
                                             ![id].ctx = "open"]
                 /\ UNCHANGED <<activeAudioType, loadingAudioType,
                                translatedText, currentLanguage, isTranslating,
                                audioContextRef, audioSourceRef, audioCache,
                                plays, sources, translations, notices,
                                closeCalls, errorPropagated, mounted, last,
                                contextsCreated, decodeVars, appVars, auditVars, cameraVars, processVars>>

\* the await of line 151 is over (the promise of decodeAudioData resolved or
\* rejected); the finally calls close() and awaits it
DecodeSettle(id) ==
  /\ id \in 1..Len(speech)
  /\ speech[id].pc = "decoding"
  /\ speech' = [speech EXCEPT ![id].pc = "closing"]
  /\ UNCHANGED <<activeAudioType, loadingAudioType, translatedText,
                 currentLanguage, isTranslating, audioContextRef, audioSourceRef,
                 audioCache, plays, sources, translations, notices, closeCalls,
                 errorPropagated, mounted, last, contextsCreated,
                 decodeVars, appVars, auditVars, cameraVars, processVars>>

\* the close() of line 160 resolves; generateSpeech returns the buffer or
\* raises its error
CloseSettle(id) ==
  /\ id \in 1..Len(speech)
  /\ speech[id].pc = "closing"
  /\ speechSettled(id, closeDecodeContext(speech[id]), speech[id].response)

NextSpeech ==
  \/ \E type \in TextType : SpeechClick(type)
  \/ \E id \in 1..Len(speech) : ProviderSettle(id)
  \/ \E id \in 1..Len(speech) : DecodeSettle(id)
  \/ \E id \in 1..Len(speech) : CloseSettle(id)
  \/ \E id \in 1..Len(plays) : ResumeSettle(id)
  \/ \E id \in 1..Len(plays) : NaturalEnd(id)
  \/ \E id \in 1..Len(plays) : OnEnded(id)
  \/ Unmount

SpecSpeech == Init /\ [][NextSpeech]_vars

\* -------------------------------------------------------- SpecRequests
\* handlePlay as the operation it is, called with the text of the card (by
\* the card's button, when that is enabled) or with the empty text (which
\* the button, disabled for an empty text at line 189, never passes).
PlayRequest(type, text) ==
  /\ mounted
  /\ text # EmptyText => ~disabled(type)
  /\ (activeAudioType # type /\ text # EmptyText) => Len(plays) < MaxRequestPlays
  /\ \E throws \in StopMayThrow(Cur), newCtx \in NewContextStates, startOk \in BOOLEAN :
       /\ Commit(handlePlay(Cur, type, text, currentLanguage, throws, newCtx, startOk))
       /\ last' = IF activeAudioType = type
                  THEN [op |-> "toggle", id |-> 0, threw |-> throws]
                  ELSE IF text = EmptyText
                       THEN [op |-> "empty", id |-> 0, threw |-> throws]
                       ELSE [op |-> "play", id |-> Len(plays) + 1, threw |-> throws]
  /\ UNCHANGED <<translatedText, currentLanguage, isTranslating, translations,
                 closeCalls, outsideView>>

NextRequests ==
  \/ \E type \in TextType : \E text \in {cardText(type), EmptyText} :
       PlayRequest(type, text)
  \/ \E id \in 1..Len(plays) : SynthSettle(id)
  \/ \E id \in 1..Len(plays) : ResumeSettle(id)
  \/ \E id \in 1..Len(plays) : NaturalEnd(id)
  \/ \E id \in 1..Len(plays) : OnEnded(id)
  \/ PlatformSuspend
  \/ Unmount

SpecRequests == Init /\ [][NextRequests]_vars

\* --------------------------------------------------------- SpecCapture
\* App.tsx: the captures that lead to the reading view.  CameraCapture is
\* rendered in HOME (line 169), TextDisplay in READING when content is set
\* (213-219).  A FileReader started by handleFileUpload
\* (CameraCapture.tsx:118-127) calls onCapture when it has read the file,
\* whatever the application shows by then.
InitCapture ==
  /\ appState = "HOME"
  /\ shown = 0
  /\ captures = << >>
  /\ fileReads = 0
  /\ InitView(FALSE)
  /\ InitServices

\* a TextDisplay is mounted for the result of capture c: fresh state and
\* refs (TextDisplay.tsx:20-34).  The promises still pending for an earlier
\* TextDisplay act on that one's refs, and are followed no further.
MountView(c) ==
  /\ activeAudioType' = Null
  /\ loadingAudioType' = Null
  /\ translatedText' = contentOf(c).translatedText
  /\ currentLanguage' = targetLanguage
  /\ isTranslating' = FALSE
  /\ audioContextRef' = Null
  /\ audioSourceRef' = 0
  /\ audioCache' = [k \in CacheKeys |-> NoBuffer]
  /\ plays' = << >>
  /\ sources' = << >>
  /\ translations' = << >>
  /\ notices' = 0
  /\ closeCalls' = 0
  /\ errorPropagated' = FALSE
  /\ mounted' = TRUE
  /\ contextsCreated' = 0
  /\ last' = [op |-> "mount", id |-> c, threw |-> FALSE]

\* App.tsx:51-55, up to the await: PROCESSING is shown, so a mounted
\* TextDisplay is unmounted
handleCapture ==
  /\ appState' = "PROCESSING"
  /\ captures' = Append(captures, "pending")
  /\ IF mounted
     THEN Cleanup
     ELSE /\ last' = [op |-> "capture", id |-> Len(captures) + 1, threw |-> FALSE]
          /\ UNCHANGED viewState
  /\ UNCHANGED <<shown, speechVars, decodeVars, auditVars, cameraVars, processVars>>

\* CameraCapture.tsx:118-127: a file is chosen and a FileReader started
SelectFile ==
  /\ appState = "HOME"
  /\ Len(captures) + fileReads < MaxCaptures
  /\ fileReads' = fileReads + 1
  /\ last' = [op |-> "select_file", id |-> 0, threw |-> FALSE]
  /\ UNCHANGED <<viewState, appState, shown, captures, speechVars, decodeVars,
                 auditVars, cameraVars, processVars>>

\* CameraCapture.tsx:122-124: reader.onloadend calls onCapture
FileLoaded ==
  /\ fileReads > 0
  /\ fileReads' = fileReads - 1
  /\ handleCapture

\* CameraCapture.tsx:103-116: the shutter button
CaptureImage ==
  /\ appState = "HOME"
  /\ Len(captures) + fileReads < MaxCaptures
  /\ handleCapture
  /\ UNCHANGED fileReads

\* App.tsx:55-61: processImage of capture k settles
ProcessSettle(k) ==
  /\ k \in 1..Len(captures)
  /\ captures[k] = "pending"
  /\ \E ok \in BOOLEAN :
       /\ captures' = [captures EXCEPT ![k] = IF ok THEN "done" ELSE "failed"]
       /\ IF ok
          THEN /\ shown' = k
               /\ appState' = "READING"
               /\ IF mounted
                  THEN /\ last' = [op |-> "content", id |-> k, threw |-> FALSE]
                       /\ UNCHANGED viewState
                  ELSE MountView(k)
          ELSE /\ shown' = shown
               /\ appState' = "HOME"
               /\ IF mounted
                  THEN Cleanup
                  ELSE /\ last' = [op |-> "process_failed", id |-> k, threw |-> FALSE]
                       /\ UNCHANGED viewState
  /\ UNCHANGED <<fileReads, speechVars, decodeVars, auditVars, cameraVars, processVars>>

\* App.tsx:217: onBack
Back ==
  /\ appState = "READING"
  /\ appState' = "HOME"
  /\ Cleanup
  /\ UNCHANGED <<shown, captures, fileReads, speechVars, decodeVars, auditVars, cameraVars, processVars>>

CaptureViewClick(type) == Click(type, MaxCapturePlays) /\ UNCHANGED outsideView

NextCapture ==
  \/ SelectFile
  \/ FileLoaded
  \/ CaptureImage
  \/ \E k \in 1..Len(captures) : ProcessSettle(k)
  \/ Back
  \/ \E type \in TextType : CaptureViewClick(type)
  \/ \E id \in 1..Len(plays) : SynthSettle(id)
  \/ \E id \in 1..Len(plays) : ResumeSettle(id)
  \/ \E id \in 1..Len(plays) : NaturalEnd(id)
  \/ \E id \in 1..Len(plays) : OnEnded(id)

SpecCapture == InitCapture /\ [][NextCapture]_vars

\* ----------------------------------------------------------- SpecAudit
\* persistenceService.ts:31-43: calls of submitOpusAudit, each a timer
\* whose callback reads the log, pushes the audit and stores the log
SubmitOpusAudit(id) ==
  /\ Len(auditCalls) < MaxAudits
  /\ auditCalls' = Append(auditCalls, [audit |-> AuditRequest(id), pc |-> "timer"])
  /\ UNCHANGED <<viewState, last, auditLogs, speechVars, decodeVars, appVars, cameraVars,
                 processVars>>

\* the timer of call k fires (lines 35-41)
AuditTimer(k) ==
  /\ k \in 1..Len(auditCalls)
  /\ auditCalls[k].pc = "timer"
  /\ auditLogs' = submitOpusAudit(auditLogs, auditCalls[k].audit)
  /\ auditCalls' = [auditCalls EXCEPT ![k].pc = "resolved"]
  /\ UNCHANGED <<viewState, last, speechVars, decodeVars, appVars, cameraVars,
                 processVars>>

NextAudit ==
  \/ \E id \in AuditIds : SubmitOpusAudit(id)
  \/ \E k \in 1..Len(auditCalls) : AuditTimer(k)

SpecAudit == Init /\ [][NextAudit]_vars


\* ------------------------------------------------------------ observers
\* source i is heard: it has been started, has not ended or been stopped,
\* and the shared context renders
Audible(i) == sources[i] = "playing" /\ audioContextRef = "running"

\* the provider calls made for a cache key by the plays ps
SynthCalls(ps, k) ==
  Cardinality({i \in 1..Len(ps) : ps[i].key = k /\ ~ps[i].fromCache})

\* the controller's state, as the cards show it (TextDisplay.tsx:150-151)
Idle == activeAudioType = Null /\ loadingAudioType = Null

\* =============================================================== claims

\* C1: at every instant at most one source started by the view is audible;
\* starting a new source never leaves an earlier one playing.
C1_AtMostOneAudible ==
  Cardinality({i \in 1..Len(sources) : Audible(i)}) <= 1

\* C2: play(original), then play(simplified) before the first resolves: once
\* both requests have settled the controller is PLAYING(simplified) or IDLE,
\* never PLAYING(original).
C2_LatestRequestWins ==
  ( /\ mounted
    /\ Len(plays) = 2
    /\ plays[1].type = "original" /\ plays[2].type = "simplified"
    /\ plays[1].pc = "done" /\ plays[2].pc = "done" )
  => activeAudioType \in {"simplified", Null}

\* C3: a stop issued by a language change while a play request is awaiting
\* synthesis, with no later play request: when the synthesis result arrives
\* and the request has settled, no source has been started and the
\* controller is IDLE.
C3_StopDiscardsLateResult ==
  [][ ( /\ last.op = "language"
        /\ last'.op = "synth"
        /\ plays'[last'.id].pc = "done" )
      => ( /\ sources'[last'.id] = "none"
           /\ activeAudioType' = Null
           /\ loadingAudioType' = Null ) ]_vars

\* C4: once a key has been synthesized successfully, every later play
\* request for that key and text plays the cached buffer and makes no
\* provider call: the call count of the key stays as it is and the cached
\* buffer stays the identical one.
C4_CachedKeySynthesizedOnce ==
  [][ \A k \in CacheKeys :
        audioCache[k] # NoBuffer =>
          /\ SynthCalls(plays', k) = SynthCalls(plays, k)
          /\ audioCache'[k] = audioCache[k]
          /\ ( /\ last'.op = "play"
               /\ Len(plays') > Len(plays)
               /\ plays'[Len(plays')].key = k
               /\ plays'[Len(plays')].text = audioCache[k].text )
             => ( /\ plays'[Len(plays')].fromCache
                  /\ plays'[Len(plays')].buffer = audioCache[k] ) ]_vars

\* C5: once the language has been changed and the new translation is shown,
\* a play of 'translated' never plays a buffer synthesized from an earlier
\* translated text, whatever the sequence of language changes.
C5_TranslatedPlaysShownText ==
  \A i \in 1..Len(plays) :
    ( /\ plays[i].type = "translated"
      /\ plays[i].text.lang = plays[i].lang
      /\ plays[i].buffer # NoBuffer )
    => plays[i].buffer.text = plays[i].text


\* C6: a change of the translation language never removes or replaces the
\* cache entries of 'original' and 'simplified'; one that was cached before
\* the change is played from the cache afterwards, with no provider call.
C6_LanguageChangeKeepsOtherEntries ==
  [][ \A k \in {"original", "simplified"} :
        /\ translations' # translations => audioCache'[k] = audioCache[k]
        /\ ( /\ Len(translations) > 0
             /\ audioCache[k] # NoBuffer
             /\ Len(plays') > Len(plays)
             /\ plays'[Len(plays')].key = k )
           => ( /\ plays'[Len(plays')].fromCache
                /\ plays'[Len(plays')].buffer = audioCache[k]
                /\ SynthCalls(plays', k) = SynthCalls(plays, k) ) ]_vars

\* a successful language change has just completed and both entries are
\* still cached
C6_Witness ==
  /\ last.op = "translated"
  /\ translations[last.id].pc = "done"
  /\ audioCache["original"] # NoBuffer
  /\ audioCache["simplified"] # NoBuffer

\* C7: a play request for the variant that is PLAYING acts as stop: the
\* session's source is stopped, the controller is IDLE, nothing is
\* restarted, LOADING is not entered and no provider call is made.
C7_PlayOnPlayingVariantStops ==
  [][ last'.op = "toggle" =>
        /\ activeAudioType' = Null
        /\ loadingAudioType' = Null
        /\ audioSourceRef' = 0
        /\ audioSourceRef # 0 => sources'[audioSourceRef] # "playing"
        /\ plays' = plays
        /\ \A i \in 1..Len(sources') :
             sources'[i] = "playing" => (i <= Len(sources) /\ sources[i] = "playing")
        /\ notices' = notices ]_vars

\* a click on the playing variant has just stopped its source
C7_Witness ==
  /\ last.op = "toggle"
  /\ Idle
  /\ audioSourceRef = 0
  /\ \E i \in 1..Len(sources) : sources[i] = "ended" /\ plays[i].result = "started"

\* C8: stopAudio is idempotent and total: with nothing ever played, twice in
\* a row, or on a source that has already ended, it raises nothing and
\* leaves no active source and no variant playing (IDLE when no request is
\* loading); an error raised by the handle's stop() is swallowed.
C8_StopIsIdempotentAndTotal ==
  [][ last'.op \in {"language", "toggle", "unmount"} =>
        /\ ~errorPropagated'
        /\ audioSourceRef' = 0
        /\ activeAudioType' = Null
        /\ loadingAudioType' = loadingAudioType
        /\ loadingAudioType = Null => Idle'
        /\ \A i \in 1..Len(sources) :
             sources'[i] = IF i = audioSourceRef /\ sources[i] = "playing"
                           THEN "ended" ELSE sources[i]
        /\ (audioSourceRef = 0 /\ activeAudioType = Null) =>
             /\ sources' = sources
             /\ audioSourceRef' = audioSourceRef
             /\ activeAudioType' = activeAudioType ]_vars

\* stopAudio has just run on a source that had already ended, stop() raised,
\* and the handler went on
C8_Witness ==
  /\ last.op = "language"
  /\ last.threw
  /\ ~errorPropagated
  /\ audioSourceRef = 0
  /\ activeAudioType = Null
  /\ isTranslating

\* C9: when synthesis or playback start fails for a play request of v, the
\* controller goes from LOADING(v) to IDLE, with no variant playing and no
\* active source, and exactly one failure notice is reported.
C9_FailureResetsAndNotifiesOnce ==
  [][ \A id \in 1..Len(plays') :
        ( /\ plays'[id].result = "failed"
          /\ id <= Len(plays) => plays[id].result = "pending" )
        => /\ notices' = notices + 1
           /\ sources'[id] = "none"
           /\ mounted => loadingAudioType' = Null
           /\ (mounted /\ (id > Len(plays) \/ loadingAudioType = plays'[id].type))
              => (Idle' /\ audioSourceRef' = 0) ]_vars

\* the only play request has just failed at synthesis
C9_Witness ==
  /\ last.op = "synth"
  /\ Len(plays) = 1
  /\ plays[1].result = "failed"
  /\ mounted
  /\ Idle
  /\ audioSourceRef = 0
  /\ notices = 1

\* C10: a cache entry is written only after synthesis and decode succeeded:
\* a failed synthesis leaves the cache as it was, every entry is the buffer
\* of a successful provider call for its key, and a key with no entry is
\* synthesized again by the next play.
C10_CacheOnlyAfterSuccess ==
  [][ /\ \A k \in CacheKeys :
           audioCache'[k] # NoBuffer =>
             \E i \in 1..Len(plays') :
               /\ plays'[i].key = k
               /\ ~plays'[i].fromCache
               /\ plays'[i].buffer = audioCache'[k]
               /\ audioCache'[k] = [text |-> plays'[i].text, call |-> i]
      /\ ( /\ last'.op = "synth"
           /\ plays[last'.id].pc = "synth"
           /\ plays'[last'.id].buffer = NoBuffer )
         => (audioCache' = audioCache /\ plays'[last'.id].result = "failed")
      /\ ( /\ Len(plays') > Len(plays)
           /\ audioCache[plays'[Len(plays')].key] = NoBuffer )
         => ( /\ ~plays'[Len(plays')].fromCache
              /\ plays'[Len(plays')].pc = "synth" ) ]_vars

\* a request failed at synthesis, left no entry, and the next request for
\* the same key has called the provider again
C10_Witness ==
  /\ Len(plays) = 2
  /\ plays[1].result = "failed"
  /\ ~plays[1].fromCache
  /\ plays[1].buffer = NoBuffer
  /\ plays[2].key = plays[1].key
  /\ ~plays[2].fromCache
  /\ plays[2].pc = "synth"
  /\ audioCache[plays[1].key] = NoBuffer

\* C11: the shared output context is absent until a playback first needs
\* it, is constructed at most once, and every later playback uses it; stop,
\* toggle, natural completion and language change neither close nor
\* recreate it.
C11_SharedContextCreatedOnce ==
  [][ /\ contextsCreated' <= 1
      /\ (audioContextRef' = Null) <=> (contextsCreated' = 0)
      /\ audioContextRef' # Null =>
           \E i \in 1..Len(plays') : plays'[i].buffer # NoBuffer
      /\ audioContextRef # Null => audioContextRef' # Null
      /\ contextsCreated' # contextsCreated =>
           /\ audioContextRef = Null
           /\ contextsCreated' = contextsCreated + 1
           /\ last'.op \in {"play", "synth"}
      /\ \A i \in 1..Len(sources') :
           (sources'[i] = "playing" /\ (i > Len(sources) \/ sources[i] = "none"))
           => (audioContextRef' # Null /\ contextsCreated' = 1)
      /\ last'.op \in {"toggle", "buffer_end", "onended", "language", "translated"}
         => ( /\ audioContextRef' = audioContextRef
              /\ contextsCreated' = contextsCreated
              /\ closeCalls' = closeCalls ) ]_vars

\* two playbacks have started on the one context, and a language change has
\* then stopped the second
C11_Witness ==
  /\ last.op = "language"
  /\ Len(plays) = 2
  /\ plays[1].result = "started"
  /\ plays[2].result = "started"
  /\ contextsCreated = 1
  /\ audioContextRef \in {"running", "suspended"}
  /\ closeCalls = 0

\* C12: the shared context is closed exactly once, at teardown: when the
\* view holds a context, the cleanup stops the active source and then
\* closes that context once; close is called at no other point.
C12_ClosedOnceAtTeardown ==
  [][ /\ closeCalls' <= 1
      /\ (audioContextRef' = "closed") <=> (closeCalls' = 1)
      /\ closeCalls' # closeCalls =>
           /\ last'.op = "unmount"
           /\ mounted /\ ~mounted'
           /\ audioContextRef # Null
           /\ closeCalls' = closeCalls + 1
      /\ (mounted /\ ~mounted' /\ audioContextRef # Null) =>
           /\ closeCalls' = closeCalls + 1
           /\ audioContextRef' = "closed"
           /\ audioSourceRef' = 0
           /\ audioSourceRef # 0 => sources'[audioSourceRef] # "playing" ]_vars

\* the view has been torn down while a source was held: the source is
\* stopped and the context closed
C12_Witness ==
  /\ last.op = "unmount"
  /\ ~mounted
  /\ closeCalls = 1
  /\ audioContextRef = "closed"
  /\ audioSourceRef = 0
  /\ \E i \in 1..Len(sources) : sources[i] = "ended" /\ plays[i].result = "started"

\* C20: an ended event changes the controller's state only when it belongs
\* to the current session: the event of a stopped or superseded source
\* leaves the state PLAYING(w) while the newer source for w is audible.
C20_StaleEndedIgnored ==
  [][ ( /\ last'.op = "onended"
        /\ audioSourceRef # 0
        /\ audioSourceRef # last'.id
        /\ Audible(audioSourceRef)
        /\ activeAudioType = plays[audioSourceRef].type )
      => activeAudioType' = activeAudioType ]_vars

\* C15: for every even-length buffer and channel count c >= 1 the decode
\* gives a buffer of floor((byteLength / 2) / c) frames, frame i of channel
\* k being interleaved sample i * c + k; the samples of a trailing partial
\* frame are dropped, with no error.
C15_DecodeFramesOfEvenBuffer ==
  (decoded # Undecoded /\ Len(data) % 2 = 0) =>
    /\ decoded.ok
    /\ decoded.buffer.numberOfChannels = numChannels
    /\ decoded.buffer.length = (Len(data) \div 2) \div numChannels
    /\ \A k \in 0..(numChannels - 1) :
         \A i \in 0..(decoded.buffer.length - 1) :
           decoded.buffer.channels[k][i] =
             Sample(Int16(data[2 * (i * numChannels + k) + 1],
                          data[2 * (i * numChannels + k) + 2]))


\* C13: every decode-only context generateSpeech creates is closed before
\* generateSpeech settles, whether the decode succeeded or raised; none is
\* open once the call has returned or failed.
C13_DecodeContextClosedBeforeSettle ==
  \A i \in 1..Len(speech) :
    /\ speech[i].pc = "settled" => speech[i].ctx \in {"none", "closed"}
    /\ speech[i].pc \in {"unused", "provider"} => speech[i].ctx = "none"
    /\ speech[i].ctx = "none" =>
         (speech[i].pc = "settled" => speech[i].cause \notin {Null, "RangeError"})

\* one call has returned a buffer and another has failed in the decode, and
\* the decode context of each is closed
C13_Witness ==
  \E i, j \in 1..Len(speech) :
    /\ speech[i].pc = "settled" /\ speech[i].ok /\ speech[i].ctx = "closed"
    /\ speech[j].pc = "settled" /\ ~speech[j].ok /\ speech[j].ctx = "closed"
    /\ speech[j].cause = "RangeError"

\* C14: generateSpeech fails with one and the same error whatever the
\* cause: a provider error, a missing candidate, a missing inline payload
\* and a decode failure cannot be told apart by the caller.
C14_OneErrorForEveryCause ==
  \A i \in 1..Len(speech) :
    (speech[i].pc = "settled" /\ ~speech[i].ok) =>
      /\ speech[i].error = "Failed to generate speech."
      /\ speech[i].cause # Null
      /\ plays[i].result = "failed"
      /\ plays[i].buffer = NoBuffer

\* two calls have failed, one on a provider error and one in the decode
C14_Witness ==
  \E i, j \in 1..Len(speech) :
    /\ speech[i].pc = "settled" /\ speech[i].cause = "provider error"
    /\ speech[j].pc = "settled" /\ speech[j].cause = "RangeError"
    /\ speech[i].error = speech[j].error
    /\ notices = 2

\* C16: the decode of a buffer of odd length always fails, with no
\* AudioBuffer, and the failure reaches the play request as a playback
\* failure: one notice, no cache entry, no source.
C16_OddLengthFailsPlayback ==
  [][ \A id \in 1..Len(speech) :
        ( /\ speech[id].pc = "closing"
          /\ speech'[id].pc = "settled"
          /\ Len(speech[id].response.data) % 2 = 1 )
        => ( /\ ~decodeAudioData(speech[id].response.data, 1).ok
             /\ decodeAudioData(speech[id].response.data, 1).buffer = NoAudio
             /\ ~speech'[id].ok
             /\ plays'[id].result = "failed"
             /\ plays'[id].buffer = NoBuffer
             /\ sources'[id] = "none"
             /\ audioCache' = audioCache
             /\ notices' = notices + 1
             /\ mounted => loadingAudioType' = Null ) ]_vars

\* a play request has failed on a payload of odd length
C16_Witness ==
  \E id \in 1..Len(speech) :
    /\ speech[id].pc = "settled"
    /\ speech[id].cause = "RangeError"
    /\ plays[id].result = "failed"
    /\ audioCache[plays[id].key] = NoBuffer
    /\ notices >= 1

\* C17: a play request with the empty text is a no-op: no synthesis call,
\* no error, and the controller's state, the active source (one playing
\* another variant included) and the cache are left exactly as they were.
C17_EmptyTextIsNoOp ==
  [][ last'.op = "empty" =>
        /\ activeAudioType' = activeAudioType
        /\ loadingAudioType' = loadingAudioType
        /\ audioSourceRef' = audioSourceRef
        /\ sources' = sources
        /\ audioCache' = audioCache
        /\ plays' = plays
        /\ notices' = notices
        /\ ~errorPropagated' ]_vars

\* C18: the audio cache is scoped to one capture result: whenever the view
\* shows the result of a new capture the cache is empty, so audio made for
\* one capture result is never played for the text of another.
C18_CacheScopedToCapture ==
  [][ /\ (shown' # shown /\ mounted') =>
           audioCache' = [k \in CacheKeys |-> NoBuffer]
      /\ \A i \in 1..Len(plays') :
           plays'[i].buffer # NoBuffer =>
             plays'[i].buffer.text.cap = plays'[i].text.cap ]_vars

\* C19: the audit log is append-only: however the calls of submitOpusAudit
\* interleave, each adds exactly its own entry at the end of the stored log
\* and leaves the earlier entries as they were and in order.
C19_AuditLogAppendOnly ==
  [][ /\ \A k \in 1..Len(auditCalls) :
           (auditCalls[k].pc = "timer" /\ auditCalls'[k].pc = "resolved") =>
             getAuditLogs(auditLogs') =
               Append(getAuditLogs(auditLogs), auditCalls[k].audit)
      /\ auditLogs' # auditLogs =>
           \E k \in 1..Len(auditCalls) :
             auditCalls[k].pc = "timer" /\ auditCalls'[k].pc = "resolved"
      /\ Len(getAuditLogs(auditLogs')) =
           Cardinality({k \in 1..Len(auditCalls') : auditCalls'[k].pc = "resolved"}) ]_vars

\* three calls have been made, two of them with the same id, and the log
\* holds the entry of each in the order of the calls
C19_Witness ==
  /\ Len(auditCalls) = 3
  /\ \A k \in 1..3 : auditCalls[k].pc = "resolved"
  /\ auditCalls[1].audit.id = "a"
  /\ auditCalls[2].audit.id = "b"
  /\ auditCalls[3].audit.id = "a"
  /\ getAuditLogs(auditLogs) = <<AuditRequest("a"), AuditRequest("b"), AuditRequest("a")>>

\* --------------------------------------------------------- SpecProcess
\* processImage applied once to any answer of the model
InitProcess ==
  /\ InitReading
  /\ InitView(TRUE)
  /\ InitBackground
  /\ imageResponse \in ImageResponses
  /\ processResult = NotSettled

ProcessImage ==
  /\ processResult = NotSettled
  /\ processResult' = processImage(imageResponse)
  /\ UNCHANGED <<viewState, last, imageResponse, speechVars, decodeVars,
                 appVars, auditVars, cameraVars>>

NextProcess == ProcessImage

SpecProcess == InitProcess /\ [][NextProcess]_vars

\* the letters a and b are the same but for case
SameLetter(a, b) ==
  \/ a = b
  \/ \E n \in 1..Len(AsciiUpper) : {a, b} = {AsciiUpper[n], AsciiLower[n]}

\* kw occurs in text, case ignored
ContainsIgnoringCase(text, kw) ==
  \E i \in 1..(Len(text) - Len(kw) + 1) :
    \A j \in 1..Len(kw) : SameLetter(text[i + j - 1], kw[j])

\* ---------------------------------------------------------- SpecCamera
\* CameraCapture.tsx.  cameraCalls[i] is the i-th startCamera invocation:
\* pc says which getUserMedia call it awaits ("constrained", line 45, or
\* "fallback", line 55) or that it is "done"; stream is the MediaStream it
\* obtained: "none", "live" or "stopped".
NewStart(facing) == [pc |-> "constrained", facing |-> facing, stream |-> "none"]

\* CameraCapture.tsx:19-27: the tracks of the stream the ref holds are
\* stopped and the ref is cleared
stopCamera(calls, ref) ==
  [calls |-> IF ref # 0 THEN [calls EXCEPT ![ref].stream = "stopped"] ELSE calls,
   ref |-> 0]

\* CameraCapture.tsx:88-101, run by React when isCameraOpen, error or
\* startCamera (that is, facingMode) has changed: the cleanup of the
\* previous run (97-100), then the body (91-95), startCamera up to its
\* first await (29-45)
effect(open, err, facing, calls, ref) ==
  LET cleaned == stopCamera(calls, ref)
  IN  IF open /\ ~err
      THEN [calls |-> Append(stopCamera(cleaned.calls, cleaned.ref).calls,
                             NewStart(facing)),
            ref |-> 0]
      ELSE cleaned

\* the effect would call startCamera
starts(open, err) == open /\ ~err

\* line 162
OpenCamera ==
  /\ cameraMounted
  /\ ~isCameraOpen
  /\ starts(TRUE, cameraError) => Len(cameraCalls) < MaxCameraStarts
  /\ isCameraOpen' = TRUE
  /\ LET e == effect(TRUE, cameraError, facingMode, cameraCalls, streamRef)
     IN  cameraCalls' = e.calls /\ streamRef' = e.ref
  /\ UNCHANGED <<cameraError, facingMode, cameraMounted>>
  /\ UNCHANGED <<viewState, last, speechVars, decodeVars, appVars, auditVars,
                 processVars>>

\* lines 245 and 267: the close buttons of the error view and of the
\* camera view
CloseCamera ==
  /\ cameraMounted
  /\ isCameraOpen
  /\ isCameraOpen' = FALSE
  /\ cameraError' = FALSE
  /\ LET e == effect(FALSE, FALSE, facingMode, cameraCalls, streamRef)
     IN  cameraCalls' = e.calls /\ streamRef' = e.ref
  /\ UNCHANGED <<facingMode, cameraMounted>>
  /\ UNCHANGED <<viewState, last, speechVars, decodeVars, appVars, auditVars,
                 processVars>>

\* lines 129-131, the button of line 274
switchCamera ==
  /\ cameraMounted
  /\ isCameraOpen
  /\ ~cameraError
  /\ Len(cameraCalls) < MaxCameraStarts
  /\ facingMode' = IF facingMode = "user" THEN "environment" ELSE "user"
  /\ LET e == effect(TRUE, FALSE, facingMode', cameraCalls, streamRef)
     IN  cameraCalls' = e.calls /\ streamRef' = e.ref
  /\ UNCHANGED <<isCameraOpen, cameraError, cameraMounted>>
  /\ UNCHANGED <<viewState, last, speechVars, decodeVars, appVars, auditVars,
                 processVars>>

\* lines 133-135, the button of line 239
handleRetry ==
  /\ cameraMounted
  /\ isCameraOpen
  /\ cameraError
  /\ Len(cameraCalls) < MaxCameraStarts
  /\ cameraError' = FALSE
  /\ LET e == effect(TRUE, FALSE, facingMode, cameraCalls, streamRef)
     IN  cameraCalls' = e.calls /\ streamRef' = e.ref
  /\ UNCHANGED <<isCameraOpen, facingMode, cameraMounted>>
  /\ UNCHANGED <<viewState, last, speechVars, decodeVars, appVars, auditVars,
                 processVars>>

\* lines 46-52 and 56-62: streamRef.current = the stream obtained
streamObtained(calls, i) ==
  [calls |-> [calls EXCEPT ![i].pc = "done", ![i].stream = "live"], ref |-> i]

\* the getUserMedia call awaited by invocation i settles, and startCamera
\* goes on to its next await or to its end (lines 45-84); a setError that
\* changes error makes the effect run again, and has no effect once the
\* component is unmounted
GumSettle(i) ==
  /\ i \in 1..Len(cameraCalls)
  /\ cameraCalls[i].pc \in {"constrained", "fallback"}
  /\ \E ok \in BOOLEAN :
       IF ok
       THEN LET got == streamObtained(cameraCalls, i)
            IN  IF cameraMounted /\ cameraError
                THEN /\ starts(isCameraOpen, FALSE) =>
                          Len(cameraCalls) < MaxCameraStarts
                     /\ cameraError' = FALSE
                     /\ LET e == effect(isCameraOpen, FALSE, facingMode,
                                        got.calls, got.ref)
                        IN  cameraCalls' = e.calls /\ streamRef' = e.ref
                ELSE /\ cameraCalls' = got.calls
                     /\ streamRef' = got.ref
                     /\ UNCHANGED cameraError
       ELSE IF cameraCalls[i].pc = "constrained"
            THEN /\ cameraCalls' = [cameraCalls EXCEPT ![i].pc = "fallback"]
                 /\ UNCHANGED <<streamRef, cameraError>>
            ELSE LET s == stopCamera([cameraCalls EXCEPT ![i].pc = "done"],
                                     streamRef)
                 IN  /\ cameraCalls' = s.calls
                     /\ streamRef' = s.ref
                     /\ cameraError' = (cameraMounted \/ cameraError)
  /\ UNCHANGED <<isCameraOpen, facingMode, cameraMounted>>
  /\ UNCHANGED <<viewState, last, speechVars, decodeVars, appVars, auditVars,
                 processVars>>

\* App.tsx:169: the application leaves HOME (onCapture was called by the
\* shutter or by a FileReader) and CameraCapture is unmounted; the cleanup
\* of lines 97-100 runs
UnmountCamera ==
  /\ cameraMounted
  /\ cameraMounted' = FALSE
  /\ LET s == stopCamera(cameraCalls, streamRef)
     IN  cameraCalls' = s.calls /\ streamRef' = s.ref
  /\ UNCHANGED <<isCameraOpen, cameraError, facingMode>>
  /\ UNCHANGED <<viewState, last, speechVars, decodeVars, appVars, auditVars,
                 processVars>>

NextCamera ==
  \/ OpenCamera
  \/ CloseCamera
  \/ switchCamera
  \/ handleRetry
  \/ \E i \in 1..Len(cameraCalls) : GumSettle(i)
  \/ UnmountCamera

SpecCamera == InitCapture /\ [][NextCamera]_vars

\* the streams whose tracks have not been stopped
LiveStreams == {i \in 1..Len(cameraCalls) : cameraCalls[i].stream = "live"}

\* ------------------------------------------------------------ SpecLive
\* the play requests of one view under the assumption that every synthesis
\* call settles: generateSpeech is a promise the provider resolves or
\* rejects.  Nothing is assumed of resume(), of the user or of the platform.
MaxLivePlays == 2

LiveClick(type) == Click(type, MaxLivePlays) /\ UNCHANGED outsideView

NextLive ==
  \/ \E type \in TextType : LiveClick(type)
  \/ \E id \in 1..Len(plays) : SynthSettle(id)
  \/ \E id \in 1..Len(plays) : ResumeSettle(id)
  \/ \E id \in 1..Len(plays) : NaturalEnd(id)
  \/ \E id \in 1..Len(plays) : OnEnded(id)
  \/ PlatformSuspend
  \/ Unmount

SynthesisSettles == \A id \in 1..MaxLivePlays : WF_vars(SynthSettle(id))

SpecLive == Init /\ [][NextLive]_vars /\ SynthesisSettles

\* C21: the controller enters PLAYING(v) only from LOADING(v); while the
\* most recent play request is awaiting synthesis the state is LOADING of
\* its variant, whatever older, superseded requests do when they settle.
C21_PlayingOnlyFromLoading ==
  [][ /\ \A v \in TextType :
           (activeAudioType' = v /\ activeAudioType # v) =>
             \/ loadingAudioType = v
             \/ /\ last'.op = "play"
                /\ plays'[last'.id].type = v
                /\ plays'[last'.id].fromCache
      /\ (mounted' /\ Len(plays') > 0 /\ plays'[Len(plays')].pc = "synth") =>
           /\ loadingAudioType' = plays'[Len(plays')].type
           /\ activeAudioType' = Null ]_vars

\* C22: every play request terminates: when the synthesis calls settle the
\* controller leaves LOADING, for PLAYING or IDLE, and once every request
\* in flight has settled no variant is reported as loading.
C22_PlayRequestTerminates ==
  /\ (mounted /\ loadingAudioType # Null) ~> (~mounted \/ loadingAudioType = Null)
  /\ []( ( /\ mounted
           /\ \A i \in 1..Len(plays) : plays[i].pc = "done" )
         => loadingAudioType = Null )

\* C23: when language changes overlap, a stale translation is discarded on
\* arrival: once every translation call has settled, the text shown is the
\* translation for the language selected last.
C23_LatestLanguageShown ==
  ( /\ mounted
    /\ Len(translations) > 0
    /\ \A j \in 1..Len(translations) : translations[j].pc = "done" )
  => translatedText \in {r.text : r \in {x \in translateText(currentLanguage) : x.ok}}

\* C24: activeAudioType and loadingAudioType are never both non-null: the
\* controller is in exactly one of IDLE, LOADING(v) and PLAYING(v).
C24_NotLoadingAndPlaying ==
  /\ ~(activeAudioType # Null /\ loadingAudioType # Null)
  /\ activeAudioType \in TextType \cup {Null}
  /\ loadingAudioType \in TextType \cup {Null}

\* a play request for another variant has just stopped the playing source
\* and is loading
C24_Witness ==
  /\ last.op = "play"
  /\ mounted
  /\ loadingAudioType # Null
  /\ activeAudioType = Null
  /\ \E i \in 1..Len(sources) : sources[i] = "ended" /\ plays[i].result = "started"

\* C25: at most one synthesis call is in flight per cache key, whatever
\* play requests are issued while one is awaited.
C25_OneSynthesisPerKey ==
  \A k \in CacheKeys :
    Cardinality({i \in 1..Len(plays) :
                   plays[i].key = k /\ plays[i].pc = "synth" /\ ~plays[i].fromCache}) <= 1

\* C26: after the view has been torn down no output context is created and
\* no source is started, even for a play request that was awaiting
\* synthesis at teardown; every context the view created is closed.
C26_NothingAfterTeardown ==
  [][ /\ ~mounted =>
           /\ contextsCreated' = contextsCreated
           /\ \A i \in 1..Len(sources') :
                sources'[i] = "playing" => sources[i] = "playing"
      /\ (~mounted' /\ audioContextRef' # Null) => audioContextRef' = "closed" ]_vars

\* C27: when the translation call of a language change fails, the
\* translated card is as it was before the change: translatedText and
\* currentLanguage have their previous values and isTranslating is false.
C27_FailedTranslationRestores ==
  [][ ( /\ mounted
        /\ Len(translations) = 1
        /\ translations[1].pc = "pending"
        /\ translations'[1].pc = "failed" )
      => ( /\ translatedText' = content.translatedText
           /\ currentLanguage' = targetLanguage
           /\ translatedText'.lang = currentLanguage'
           /\ ~isTranslating' ) ]_vars

\* C28: appState becomes READING only from PROCESSING; when two captures
\* overlap, the late completion of the older one neither replaces the
\* content being read nor moves the application out of READING or HOME.
C28_ReadingOnlyFromProcessing ==
  [][ /\ (appState' = "READING" /\ appState # "READING") => appState = "PROCESSING"
      /\ \A k \in 1..Len(captures) :
           ( /\ k < Len(captures)
             /\ captures[k] = "pending"
             /\ captures'[k] # "pending" )
           => ( appState \in {"READING", "HOME"} =>
                  /\ shown' = shown
                  /\ appState' = appState ) ]_vars

\* C29: at most one camera stream is live at any time, and none is live
\* once the camera view has been closed or the component unmounted.
C29_AtMostOneLiveStream ==
  /\ Cardinality(LiveStreams) <= 1
  /\ (~isCameraOpen \/ ~cameraMounted) => LiveStreams = {}

\* C30: in every result processImage returns, requiresAudit is true if the
\* model set it true or originalText contains, case ignored, one of the
\* critical keywords; the keyword check never turns a true into a false.
C30_KeywordForcesAudit ==
  (processResult.pc = "settled" /\ processResult.ok) =>
    /\ processResult.originalText = imageResponse.originalText
    /\ imageResponse.requiresAudit => processResult.requiresAudit
    /\ (\E kw \in CRITICAL_KEYWORDS :
          ContainsIgnoringCase(imageResponse.originalText, kw))
         => processResult.requiresAudit
    /\ processResult.requiresAudit \in BOOLEAN

\* the model missed a keyword that the text spells with upper-case
\* letters, and the result is flagged
C30_Witness ==
  /\ processResult.pc = "settled"
  /\ processResult.ok
  /\ ~imageResponse.requiresAudit
  /\ processResult.requiresAudit
  /\ ~isCriticalCaseSensitive(imageResponse.originalText)

====
